---- MODULE Spec2Model ----
(***************************************************************************)
(* The OSM history converter of                                            *)
(* tasks_docker_images/osm_converter_with_history_index/src/main.py:       *)
(* the parallel, sharded indexing pass (IndexCreator, create_osm_index,    *)
(* run_create_osm_index_in_parallel), the optional merge of the shards and *)
(* the single-threaded resolution pass (HistoryHandler) that looks every   *)
(* dependency up in the index as of the timestamp of the entity resolved.  *)
(***************************************************************************)
EXTENDS Integers, Sequences, FiniteSets, TLC

\* ------------------------------------------------------------------ bounds
MaxLen == 3
MaxPoolLen == 2
MaxThreads == 2
MaxShards == 3
batch_size_to_commit == 2
ways_batch_size == 2

OSM_ENTITIES == {"nodes", "ways", "relations"}

\* ------------------------------------------------------- the source stream
Member(t, r) == [type |-> t, ref |-> r]

NodeRec(i, t, v) ==
    [kind |-> "nodes", id |-> i, ts |-> t, valid |-> v, nodes |-> <<>>, members |-> <<>>]
WayRec(i, t, ns) ==
    [kind |-> "ways", id |-> i, ts |-> t, valid |-> FALSE, nodes |-> ns, members |-> <<>>]
RelationRec(i, t, ms) ==
    [kind |-> "relations", id |-> i, ts |-> t, valid |-> FALSE, nodes |-> <<>>, members |-> ms]

\* The records a stream is drawn from: versions of two nodes (one of them
\* with a later deleted version), of one way that visits node 1 twice and of
\* one relation, without a member of kind relation and with one (a reference to
\* itself) after a repeated node member and a repeated way member.
Records ==
    {NodeRec(1, 1, TRUE), NodeRec(1, 2, TRUE), NodeRec(1, 2, FALSE), NodeRec(2, 1, TRUE),
     WayRec(1, 1, <<1, 2, 1>>), WayRec(1, 2, <<1, 2, 1>>),
     RelationRec(1, 2, <<Member("n", 2), Member("w", 1)>>),
     RelationRec(1, 2, <<Member("n", 2), Member("w", 1), Member("n", 2), Member("w", 1),
                         Member("r", 1)>>)}

\* Versions of one (kind, id) come in version order with non-decreasing
\* timestamps (the source may repeat a timestamp).
ChainMonotone(s) ==
    \A p, q \in DOMAIN s :
        (p < q /\ s[p].kind = s[q].kind /\ s[p].id = s[q].id) => s[p].ts <= s[q].ts

\* The node versions come first, as in an OSM file; the ways and relations
\* follow in any order.
NodesFirst(s) ==
    \A p, q \in DOMAIN s : (p < q /\ s[q].kind = "nodes") => s[p].kind = "nodes"

Streams ==
    {s \in UNION {[1..n -> Records] : n \in 0..MaxLen} : ChainMonotone(s) /\ NodesFirst(s)}

\* ------------------------------------------------------------------- state
VARIABLES
    args,          \* the parsed command line
    src,           \* the source stream, read once by every indexer and once by the resolver
    pc,            \* position of the main program
    err,           \* the error that ended the main program, or NoError
    num_db_shards, \* the local num_db_shards of __main__, adjusted at startup
    workers,       \* pool_index -> state of that create_osm_index task
    stores,        \* shard index -> the shard store file
    addLog,        \* the add_*_to_index calls of the indexing pass
    dbs,           \* main: shard index -> store path
    indexing_processing_counter, \* main: the per-kind counts kept from the pool
    merged,        \* rows of the merged store
    history        \* the HistoryHandler and the resolution pass around it

vars == <<args, src, pc, err, num_db_shards, workers, stores, addLog, dbs,
          indexing_processing_counter, merged, history>>

NoError == [kind |-> "none", pool_index |-> -1]
MergedPath == -1

create_processing_counter == [key \in OSM_ENTITIES |-> 0]

Args ==
    [num_threads : 1..MaxThreads,
     num_db_shards : 1..MaxShards,
     merge_db_shards : BOOLEAN,
     use_id_hash_partitioned_shards : BOOLEAN]

\* BatchManager: the main entities whose geometry is pending, the dependencies
\* gathered for them and, per kind, the original id of every simplified id given
\* out since the last reset (simplified id n is entry n).
EmptyBatch ==
    [main_ways |-> <<>>, main_relations |-> <<>>,
     deps_nodes |-> {}, deps_ways |-> {}, deps_relations |-> {},
     simplified_to_original |-> [e \in OSM_ENTITIES |-> <<>>]]

NoHistory ==
    [pos |-> 0,
     processing_counter |-> create_processing_counter,
     entities_number |-> create_processing_counter,
     osm_indexer_map |-> <<>>,
     open |-> {},
     batch |-> EmptyBatch,
     out |-> [e \in OSM_ENTITIES |-> <<>>],
     out_open |-> {},
     lookups |-> <<>>,
     flushes |-> <<>>,
     uploaded |-> {}]

\* A pool of several indexers is run on the streams of at most MaxPoolLen records.
Init ==
    /\ args \in Args
    /\ src \in Streams
    /\ args.num_threads > 1 => Len(src) <= MaxPoolLen
    /\ pc = "start"
    /\ err = NoError
    /\ num_db_shards = args.num_db_shards
    /\ workers = <<>>
    /\ stores = <<>>
    /\ addLog = {}
    /\ dbs = <<>>
    /\ indexing_processing_counter = create_processing_counter
    /\ merged = {}
    /\ history = NoHistory

\* ---------------------------------------------------------------- startup
\* --num_db_shards is raised to --num_threads when it is lower.
AdjustedShards(num_threads, shards) ==
    IF num_threads > shards THEN num_threads ELSE shards

\* Variant: the divisibility of the shard count is not checked.
ShardConfigUnchecked(num_threads, shards) == TRUE

ShardConfigOk(num_threads, shards) == shards % num_threads = 0

\* __main__ up to the call of run_create_osm_index_in_parallel.
Startup ==
    /\ pc = "start"
    /\ num_db_shards' = AdjustedShards(args.num_threads, num_db_shards)
    /\ IF ShardConfigOk(args.num_threads, num_db_shards')
          THEN pc' = "spawn" /\ err' = err
          ELSE pc' = "fatal" /\ err' = [kind |-> "ShardConfigError", pool_index |-> -1]
    /\ UNCHANGED <<args, src, workers, stores, addLog, dbs,
                   indexing_processing_counter, merged, history>>

\* ---------------------------------------------------------- indexing pass
Pool == 0..(args.num_threads - 1)

QueuedWorker ==
    [pc |-> "queued", pos |-> 0, processing_counter |-> create_processing_counter,
     osm_indexer_map |-> {}, open |-> {}, since_commit |-> 0]

\* pool.apply_async of one create_osm_index task per pool index, pool.close().
SpawnPool ==
    /\ pc = "spawn"
    /\ workers' = [w \in Pool |-> QueuedWorker]
    /\ pc' = "join"
    /\ UNCHANGED <<args, src, err, num_db_shards, stores, addLog, dbs,
                   indexing_processing_counter, merged, history>>

CeilDiv(a, b) == (a + b - 1) \div b

\* Variant: the slot count of a task is rounded up once too often.
thread_batch_size_plus_one(num_shards, pool_size) == (num_shards \div pool_size) + 1

thread_batch_size(num_shards, pool_size) == CeilDiv(num_shards, pool_size)

\* Variant: every task starts its range at slot 0.
OwnedShardsFromZero(num_shards, pool_size, pool_index) ==
    0..(CeilDiv(num_shards, pool_size) - 1)

\* The shard slots of one task: range(start_index, start_index + thread_batch_size).
OwnedShards(num_shards, pool_size, pool_index) ==
    LET start_index == pool_index * thread_batch_size(num_shards, pool_size)
    IN  start_index..(start_index + thread_batch_size(num_shards, pool_size) - 1)

NewStore(w) == [rows |-> {}, creators |-> {w}, writers |-> {}]

\* create_osm_index up to run_index_creator: one store is created per owned slot.
CreateShards(w) ==
    /\ w \in DOMAIN workers
    /\ workers[w].pc = "queued"
    /\ LET owned == OwnedShards(num_db_shards, args.num_threads, w)
       IN  /\ workers' = [workers EXCEPT ![w] =
                  [@ EXCEPT !.pc = "streaming", !.osm_indexer_map = owned, !.open = owned]]
           /\ stores' = [s \in DOMAIN stores \cup owned |->
                  IF s \in owned
                     THEN IF s \in DOMAIN stores
                             THEN [stores[s] EXCEPT !.creators = @ \cup {w}]
                             ELSE NewStore(w)
                     ELSE stores[s]]
    /\ UNCHANGED <<args, src, pc, err, num_db_shards, addLog, dbs,
                   indexing_processing_counter, merged, history>>

stable_hash(id) == (id * 40503) % 65536

get_uniformly_shard_index_from_id(id, num_shards) == stable_hash(id) % num_shards

SameKey(r, q) == r.kind = q.kind /\ r.id = q.id /\ r.ts = q.ts

\* Put: one row per (kind, id, timestamp).
Put(rows, rec) == {r \in rows : ~SameKey(r, rec)} \cup {rec}

\* The shard a record goes to, from the counter value after log_processing.
batch_index(osm_object, counter, hash_mode, num_shards) ==
    IF hash_mode
       THEN get_uniformly_shard_index_from_id(osm_object.id, num_shards)
       ELSE counter % num_shards

commit_needed(counter) == counter % batch_size_to_commit = 0

\* OsmHandler.node/way/relation (log_processing) followed by process_osm_object.
IndexRecord(w, kind) ==
    /\ w \in DOMAIN workers
    /\ workers[w].pc = "streaming"
    /\ workers[w].pos < Len(src)
    /\ src[workers[w].pos + 1].kind = kind
    /\ LET me == workers[w]
           position == me.pos + 1
           osm_object == src[position]
           counter == me.processing_counter[kind] + 1
           index == batch_index(osm_object, counter,
                                args.use_id_hash_partitioned_shards, num_db_shards)
           owned == index \in me.osm_indexer_map
       IN  /\ workers' = [workers EXCEPT ![w] =
                  [@ EXCEPT !.pos = position,
                            !.processing_counter[kind] = counter,
                            !.since_commit =
                                IF owned /\ commit_needed(counter) THEN 0 ELSE @ + 1]]
           /\ IF owned
                 THEN /\ stores' = [stores EXCEPT ![index] =
                             [@ EXCEPT !.rows = Put(@, osm_object),
                                       !.writers = @ \cup {w}]]
                      /\ addLog' = addLog \cup
                             {[pool_index |-> w, shard |-> index, position |-> position]}
                 ELSE UNCHANGED <<stores, addLog>>
    /\ UNCHANGED <<args, src, pc, err, num_db_shards, dbs,
                   indexing_processing_counter, merged, history>>

IndexCreator_node(w) == IndexRecord(w, "nodes")
IndexCreator_way(w) == IndexRecord(w, "ways")
IndexCreator_relation(w) == IndexRecord(w, "relations")

\* End of stream in create_osm_index: every owned store is closed, the task returns.
CloseShards(w) ==
    /\ w \in DOMAIN workers
    /\ workers[w].pc = "streaming"
    /\ workers[w].pos = Len(src)
    /\ workers' = [workers EXCEPT ![w] = [@ EXCEPT !.pc = "done", !.open = {}]]
    /\ UNCHANGED <<args, src, pc, err, num_db_shards, stores, addLog, dbs,
                   indexing_processing_counter, merged, history>>

\* A store write of the task raises: the task ends, its handler and counters are
\* lost with it and the stores it opened are never closed.
WorkerFails(w) ==
    /\ w \in DOMAIN workers
    /\ workers[w].pc = "streaming"
    /\ workers' = [workers EXCEPT ![w] =
           [QueuedWorker EXCEPT !.pc = "failed",
                                !.osm_indexer_map = workers[w].osm_indexer_map,
                                !.open = workers[w].open]]
    /\ UNCHANGED <<args, src, pc, err, num_db_shards, stores, addLog, dbs,
                   indexing_processing_counter, merged, history>>

\* Variant: the join returns as soon as one task has ended.
PoolJoinedAny == \E w \in DOMAIN workers : workers[w].pc \in {"done", "failed"}

\* pool.join(): every task has ended, normally or not.
PoolJoined == \A w \in DOMAIN workers : workers[w].pc \in {"done", "failed"}

FailedWorkers == {w \in DOMAIN workers : workers[w].pc = "failed"}

Min(S) == CHOOSE x \in S : \A y \in S : x <= y

\* Variant: the error of a task is logged by the callback and not raised again.
ResultsSwallowed == FALSE

\* [result.get() for result in results]: the first failed task re-raises here.
ResultsRaise == FailedWorkers # {}

RECURSIVE SumCounters(_, _, _)
SumCounters(dbs_and_counters, kind, n) ==
    IF n = 0 THEN 0
    ELSE dbs_and_counters[n - 1].processing_counter[kind]
             + SumCounters(dbs_and_counters, kind, n - 1)

\* Variant: the counts returned by the tasks are added up.
summed_processing_counter(dbs_and_counters) ==
    [kind \in OSM_ENTITIES |->
        SumCounters(dbs_and_counters, kind, Cardinality(DOMAIN dbs_and_counters))]

\* dbs_and_counters[0][1]: the counts returned by the task of pool index 0.
first_processing_counter(dbs_and_counters) == dbs_and_counters[0].processing_counter

\* pool.join() and the collection of the results.
JoinPool ==
    /\ pc = "join"
    /\ workers # <<>>
    /\ PoolJoined
    /\ IF ResultsRaise
          THEN /\ pc' = "fatal"
               /\ err' = [kind |-> "WorkerError", pool_index |-> Min(FailedWorkers)]
               /\ UNCHANGED <<dbs, indexing_processing_counter>>
          ELSE /\ pc' = "create_output_files"
               /\ err' = err
               /\ dbs' = [s \in UNION {workers[w].osm_indexer_map : w \in DOMAIN workers} |-> s]
               /\ indexing_processing_counter' = first_processing_counter(workers)
    /\ UNCHANGED <<args, src, num_db_shards, workers, stores, addLog, merged, history>>

\* ------------------------------------------------ between the two passes
\* create_output_files: the three JSON-lines files are opened for writing.
CreateOutputFiles ==
    /\ pc = "create_output_files"
    /\ history' = [history EXCEPT !.out_open = OSM_ENTITIES]
    /\ pc' = "merge"
    /\ UNCHANGED <<args, src, err, num_db_shards, workers, stores, addLog, dbs,
                   indexing_processing_counter, merged>>

ShardRows == UNION {stores[dbs[s]].rows : s \in DOMAIN dbs}

\* Merge fails on one key held with two payloads.
MergeConflict == \E r, q \in ShardRows : SameKey(r, q) /\ r # q

\* merge_if_db_needed_and_upload_to_gcs.
MergeShards ==
    /\ pc = "merge"
    /\ IF args.merge_db_shards
          THEN IF MergeConflict
                  THEN /\ pc' = "fatal"
                       /\ err' = [kind |-> "InvariantViolation", pool_index |-> -1]
                       /\ UNCHANGED <<merged, dbs>>
                  ELSE /\ merged' = ShardRows
                       /\ dbs' = (0 :> MergedPath)
                       /\ pc' = "open_index"
                       /\ err' = err
          ELSE /\ pc' = "open_index"
               /\ UNCHANGED <<merged, dbs, err>>
    /\ UNCHANGED <<args, src, num_db_shards, workers, stores, addLog,
                   indexing_processing_counter, history>>

\* The indexers of the resolution pass are opened and the HistoryHandler is built.
OpenIndex ==
    /\ pc = "open_index"
    /\ history' = [history EXCEPT !.osm_indexer_map = dbs,
                                  !.open = DOMAIN dbs,
                                  !.entities_number = indexing_processing_counter,
                                  !.batch = EmptyBatch]
    /\ pc' = "resolving"
    /\ UNCHANGED <<args, src, err, num_db_shards, workers, stores, addLog, dbs,
                   indexing_processing_counter, merged>>

\* -------------------------------------------------------- resolution pass
RowsAt(path) == IF path = MergedPath THEN merged ELSE stores[path].rows

\* The key of osm_indexer_map that serves an id.
indexer_key(id) ==
    IF Cardinality(DOMAIN history.osm_indexer_map) = 1
       THEN 0
       ELSE get_uniformly_shard_index_from_id(id, num_db_shards)

get_osm_indexer_by_id(id) == history.osm_indexer_map[indexer_key(id)]

\* The rows of (kind, id) with the greatest timestamp <= ts: none or one.
GetAsOf(rows, kind, id, ts) ==
    {r \in rows :
        /\ r.kind = kind /\ r.id = id /\ r.ts <= ts
        /\ \A q \in rows : (q.kind = kind /\ q.id = id /\ q.ts <= ts) => q.ts <= r.ts}

get_from_index_by_timestamp(kind, id, ts) == GetAsOf(RowsAt(get_osm_indexer_by_id(id)), kind, id, ts)

is_node_dict_with_location(node_dict) == node_dict.valid

\* int(datetime.timestamp(entity.timestamp)) of the way or relation resolved.
entity_timestamp(entity) == entity.ts

\* Variant: the nodes of a member way are fetched as of the way's own timestamp.
way_node_timestamp_of_way(relation_timestamp, way_dict) == way_dict.ts

\* The as-of argument for a node of a member way of a relation.
way_node_timestamp(relation_timestamp, way_dict) == relation_timestamp

TheRow(found) == CHOOSE r \in found : TRUE

\* `if node_dict and is_node_dict_with_location(node_dict)`, `if way_dict`.
Found(kind, id, ts) ==
    LET found == get_from_index_by_timestamp(kind, id, ts)
    IN  found # {} /\ (kind = "nodes" => is_node_dict_with_location(TheRow(found)))

\* One get_*_from_index_by_timestamp call: the record resolved (position), the
\* call site (via), the arguments, the store selected and whether the result
\* was kept.
Lookup(position, via, kind, id, ts) ==
    [position |-> position, via |-> via, kind |-> kind, id |-> id, asof |-> ts,
     key |-> indexer_key(id), path |-> get_osm_indexer_by_id(id),
     found |-> Found(kind, id, ts)]

\* append_node_dict_by_id_and_timestamp with nodes_list, over way.nodes[i..].
RECURSIVE WayNodes(_, _, _)
WayNodes(node_ids, i, ts) ==
    IF i > Len(node_ids)
       THEN <<>>
       ELSE LET found == get_from_index_by_timestamp("nodes", node_ids[i], ts)
                rest == WayNodes(node_ids, i + 1, ts)
            IN  IF found # {} /\ is_node_dict_with_location(TheRow(found))
                   THEN <<TheRow(found)>> \o rest
                   ELSE rest

\* get_way_and_its_dependencies_as_dict: the node lookups and the list they give.
get_way_and_its_dependencies_as_dict(position, way) ==
    LET way_timestamp == entity_timestamp(way)
    IN  [lookups |-> [i \in 1..Len(way.nodes) |->
                         Lookup(position, "way_node", "nodes", way.nodes[i], way_timestamp)],
         way_nodes |-> WayNodes(way.nodes, 1, way_timestamp)]

\* append_node_dict_by_id_and_timestamp with nodes_map.
AppendNodeToMap(st, position, via, node_id, ts) ==
    LET found == get_from_index_by_timestamp("nodes", node_id, ts)
        log == Append(st.lookups, Lookup(position, via, "nodes", node_id, ts))
    IN  IF found # {} /\ is_node_dict_with_location(TheRow(found))
           THEN [st EXCEPT !.lookups = log,
                           !.nodes_map = [n \in DOMAIN @ \cup {node_id} |->
                                             IF n = node_id THEN TheRow(found) ELSE @[n]]]
           ELSE [st EXCEPT !.lookups = log]

RECURSIVE AppendWayNodes(_, _, _, _, _)
AppendWayNodes(st, position, node_ids, i, ts) ==
    IF i > Len(node_ids)
       THEN st
       ELSE AppendWayNodes(AppendNodeToMap(st, position, "member_way_node", node_ids[i], ts),
                           position, node_ids, i + 1, ts)

\* Variant: a member relation is fetched as of the relation's timestamp and kept.
append_member_relation_fetched(st, position, member, relation_timestamp) ==
    LET found == get_from_index_by_timestamp("relations", member.ref, relation_timestamp)
        looked == [st EXCEPT !.lookups = Append(@,
                      Lookup(position, "member", "relations", member.ref, relation_timestamp))]
    IN  IF found # {}
           THEN [looked EXCEPT !.relations_map =
                    [r \in DOMAIN @ \cup {member.ref} |->
                        IF r = member.ref THEN TheRow(found) ELSE @[r]]]
           ELSE looked

\* `elif member_type == "r": pass`: a member relation is neither fetched nor expanded.
append_member_relation(st, position, member, relation_timestamp) == st

\* append_relation_dependency_objects_dicts for one member.
append_relation_dependency_objects_dicts(st, position, member, relation_timestamp) ==
    IF member.type = "n"
       THEN IF member.ref \notin DOMAIN st.nodes_map
               THEN AppendNodeToMap(st, position, "member", member.ref, relation_timestamp)
               ELSE st
    ELSE IF member.type = "w"
       THEN IF member.ref \notin DOMAIN st.ways_map
               THEN LET found == get_from_index_by_timestamp("ways", member.ref,
                                                             relation_timestamp)
                        looked == [st EXCEPT !.lookups = Append(@,
                                      Lookup(position, "member", "ways", member.ref,
                                             relation_timestamp))]
                    IN  IF found # {}
                           THEN AppendWayNodes(
                                    [looked EXCEPT !.ways_map =
                                        [w \in DOMAIN @ \cup {member.ref} |->
                                            IF w = member.ref THEN TheRow(found) ELSE @[w]]],
                                    position, TheRow(found).nodes, 1,
                                    way_node_timestamp(relation_timestamp, TheRow(found)))
                           ELSE looked
               ELSE st
    ELSE IF member.type = "r"
       THEN append_member_relation(st, position, member, relation_timestamp)
    ELSE st

RECURSIVE GatherMembers(_, _, _, _, _)
GatherMembers(st, position, members, i, relation_timestamp) ==
    IF i > Len(members)
       THEN st
       ELSE GatherMembers(
                append_relation_dependency_objects_dicts(st, position, members[i],
                                                         relation_timestamp),
                position, members, i + 1, relation_timestamp)

Range(f) == {f[x] : x \in DOMAIN f}

\* get_relation_and_its_dependencies_as_dict.
get_relation_and_its_dependencies_as_dict(position, relation) ==
    LET st == GatherMembers([nodes_map |-> <<>>, ways_map |-> <<>>, relations_map |-> <<>>,
                             lookups |-> <<>>],
                            position, relation.members, 1, entity_timestamp(relation))
    IN  [lookups |-> st.lookups,
         relation_nodes |-> Range(st.nodes_map),
         relation_ways |-> Range(st.ways_map),
         relation_relations |-> Range(st.relations_map)]

\* Python values that reach the geometry field of an emitted record.
None == [type |-> "NoneType", text |-> ""]
StrValue(text) == [type |-> "str", text |-> text]
PointDict == [type |-> "dict", text |-> "{'type': 'Point', 'coordinates': [lon, lat]}"]

\* str(x)
str(x) == IF x.type = "str" THEN x
          ELSE IF x.type = "NoneType" THEN StrValue("None")
          ELSE StrValue(x.text)

node_geometry(node) == IF node.valid THEN PointDict ELSE None

Emitted(position, entity, geometry, way_nodes, relation_nodes, relation_ways) ==
    [position |-> position, kind |-> entity.kind, id |-> entity.id, ts |-> entity.ts,
     geometry |-> geometry, way_nodes |-> way_nodes,
     relation_nodes |-> relation_nodes, relation_ways |-> relation_ways]

\* Variant: the line is written at the start of the file.
write_out_at_start(file, entity_dict) == <<entity_dict>> \o file

\* write_out_to_jsonl: one more line at the end of the file of the kind.
write_out_to_jsonl(file, entity_dict) == Append(file, entity_dict)

\* The write-out callback of a restore, called for each restored entity in turn.
RECURSIVE WriteOutAll(_, _, _)
WriteOutAll(file, entity_dicts, i) ==
    IF i > Len(entity_dicts)
       THEN file
       ELSE WriteOutAll(write_out_to_jsonl(file, entity_dicts[i]), entity_dicts, i + 1)

\* osm_entity_node_dict(node, geometry): the geometry argument becomes the field.
osm_entity_node_dict(position, node, geometry) ==
    Emitted(position, node, geometry, <<>>, {}, {})

\* HistoryHandler.node
HistoryHandler_node ==
    /\ pc = "resolving"
    /\ history.pos < Len(src)
    /\ src[history.pos + 1].kind = "nodes"
    /\ LET position == history.pos + 1
           node == src[position]
           node_dict == osm_entity_node_dict(position, node, str(node_geometry(node)))
       IN  history' = [history EXCEPT !.pos = position,
                                      !.processing_counter["nodes"] = @ + 1,
                                      !.out["nodes"] = write_out_to_jsonl(@, node_dict)]
    /\ UNCHANGED <<args, src, pc, err, num_db_shards, workers, stores, addLog, dbs,
                   indexing_processing_counter, merged>>

\* The next simplified id of a kind.
simplified_id(batch, kind) == Len(batch.simplified_to_original[kind]) + 1

Dependency(sid, row) == [simplified_id |-> sid, row |-> row]

\* A dependency enters the batch under a new simplified id, unless the same
\* payload is already held.
AddDependency(batch, deps, kind, row) ==
    IF \E d \in batch[deps] : d.row = row
       THEN batch
       ELSE [batch EXCEPT ![deps] = @ \cup {Dependency(simplified_id(batch, kind), row)},
                          !.simplified_to_original[kind] = Append(@, row.id)]

RECURSIVE AddDependencies(_, _, _, _, _)
AddDependencies(batch, deps, kind, rows, i) ==
    IF i > Len(rows)
       THEN batch
       ELSE AddDependencies(AddDependency(batch, deps, kind, rows[i]), deps, kind, rows, i + 1)

\* The values of a dependency map of one relation, by id.
RECURSIVE SortedRows(_)
SortedRows(rows) ==
    IF rows = {}
       THEN <<>>
       ELSE LET first == CHOOSE r \in rows : \A q \in rows : r.id <= q.id
            IN  <<first>> \o SortedRows(rows \ {first})

\* A main entity of the batch: its id is the simplified id.
MainEntity(position, entity, sid, way_nodes, relation_nodes, relation_ways) ==
    [position |-> position, entity |-> [entity EXCEPT !.id = sid], way_nodes |-> way_nodes,
     relation_nodes |-> relation_nodes, relation_ways |-> relation_ways]

\* replace_ids_in_way_and_its_dependencies and add_osm_dicts_to_batches of a way.
AddMainWay(batch, position, way, way_nodes) ==
    LET with_deps == AddDependencies(batch, "deps_nodes", "nodes", way_nodes, 1)
        sid == simplified_id(with_deps, "ways")
    IN  [with_deps EXCEPT
            !.main_ways = Append(@, MainEntity(position, way, sid, way_nodes, {}, {})),
            !.simplified_to_original["ways"] = Append(@, way.id)]

\* replace_ids_in_relation_and_its_dependencies and add_osm_dicts_to_batches of a
\* relation.
AddMainRelation(batch, position, relation, relation_nodes, relation_ways, relation_relations) ==
    LET with_nodes == AddDependencies(batch, "deps_nodes", "nodes",
                                      SortedRows(relation_nodes), 1)
        with_ways == AddDependencies(with_nodes, "deps_ways", "ways",
                                     SortedRows(relation_ways), 1)
        with_deps == AddDependencies(with_ways, "deps_relations", "relations",
                                     SortedRows(relation_relations), 1)
        sid == simplified_id(with_deps, "relations")
    IN  [with_deps EXCEPT
            !.main_relations = Append(@, MainEntity(position, relation, sid, <<>>,
                                                    relation_nodes, relation_ways)),
            !.simplified_to_original["relations"] = Append(@, relation.id)]

MainCount(batch, kind) ==
    IF kind = "ways" THEN Len(batch.main_ways) ELSE Len(batch.main_relations)

\* BatchManager.is_full: the batch threshold is reached, or the record is the last
\* of its kind by the counts of the indexing pass.
is_full(batch, kind, processing_counter, entities_number) ==
    \/ MainCount(batch, kind) >= ways_batch_size
    \/ processing_counter[kind] = entities_number[kind]

get_ways_simplified_ids(batch) == {m.entity.id : m \in Range(batch.main_ways)}

get_main_relations_simplified_ids(batch) == {m.entity.id : m \in Range(batch.main_relations)}

\* An object of the temporary OSM file: its id is a simplified id.
FileObject(sid, way_nodes, relation_nodes, relation_ways) ==
    [simplified_id |-> sid, way_nodes |-> way_nodes,
     relation_nodes |-> relation_nodes, relation_ways |-> relation_ways]

\* sort_and_write_to_osm_file: every way, node and relation of the batch.
sort_and_write_to_osm_file(batch) ==
    [ways |-> {FileObject(m.entity.id, m.way_nodes, {}, {}) : m \in Range(batch.main_ways)}
              \cup {FileObject(d.simplified_id, <<>>, {}, {}) : d \in batch.deps_ways},
     nodes |-> {FileObject(d.simplified_id, <<>>, {}, {}) : d \in batch.deps_nodes},
     relations |-> {FileObject(m.entity.id, <<>>, m.relation_nodes, m.relation_ways) :
                       m \in Range(batch.main_relations)}
                   \cup {FileObject(d.simplified_id, <<>>, {}, {}) : d \in batch.deps_relations}]

\* The geometry the builder returns for a target of the batch file.
WayGeometry(way_nodes) ==
    IF Len(way_nodes) >= 2 THEN StrValue("LineString") ELSE None

RelationGeometry(relation_nodes, relation_ways) ==
    IF relation_ways # {} THEN StrValue("GeometryCollection") ELSE None

\* GDALHandler.osm_to_geojson: simplified id -> geometry, for the targets of the
\* file a geometry could be built for.
osm_to_geojson(file, kind, target_ids) ==
    LET geometry(object) ==
            IF kind = "ways"
               THEN WayGeometry(object.way_nodes)
               ELSE RelationGeometry(object.relation_nodes, object.relation_ways)
        built == {object \in file[kind] :
                     object.simplified_id \in target_ids /\ geometry(object) # None}
    IN  [sid \in {object.simplified_id : object \in built} |->
            geometry(CHOOSE object \in built : object.simplified_id = sid)]

\* The main entity under its original id again, with the geometry of its
\* simplified id (null when the builder returned none).
Restored(batch, kind, main, id_geometry_map) ==
    LET sid == main.entity.id
        original == [main.entity EXCEPT !.id = batch.simplified_to_original[kind][sid]]
        geometry == IF sid \in DOMAIN id_geometry_map THEN id_geometry_map[sid] ELSE None
    IN  Emitted(main.position, original, geometry,
                main.way_nodes, main.relation_nodes, main.relation_ways)

\* restore_ways_ids_and_add_geometry with add_geometry_and_write.
RestoredWays(batch, id_geometry_map) ==
    [i \in 1..Len(batch.main_ways) |->
        Restored(batch, "ways", batch.main_ways[i], id_geometry_map)]

\* restore_relations_ids_and_add_geometry with prepare_and_write_out.
RestoredRelations(batch, id_geometry_map) ==
    [i \in 1..Len(batch.main_relations) |->
        Restored(batch, "relations", batch.main_relations[i], id_geometry_map)]

\* BatchManager.reset
reset(batch) == EmptyBatch

Flush(position, kind, batch, file, target_ids, id_geometry_map, written, after) ==
    [position |-> position, kind |-> kind, batch |-> batch, file |-> file,
     target_ids |-> target_ids, id_geometry_map |-> id_geometry_map,
     written |-> written, after |-> after]

\* Variant: the batch is reset before it is written to the file.
way_batch_flush_reset_first(position, batch) ==
    LET after == reset(batch)
        file == sort_and_write_to_osm_file(after)
        target_ids == get_ways_simplified_ids(after)
        id_geometry_map == osm_to_geojson(file, "ways", target_ids)
    IN  Flush(position, "ways", batch, file, target_ids, id_geometry_map,
              RestoredWays(after, id_geometry_map), after)

\* The flush of HistoryHandler.way: the file, the builder, the restore, the reset.
way_batch_flush(position, batch) ==
    LET file == sort_and_write_to_osm_file(batch)
        target_ids == get_ways_simplified_ids(batch)
        id_geometry_map == osm_to_geojson(file, "ways", target_ids)
        written == RestoredWays(batch, id_geometry_map)
    IN  Flush(position, "ways", batch, file, target_ids, id_geometry_map, written,
              reset(batch))

\* The flush of HistoryHandler.relation.
relation_batch_flush(position, batch) ==
    LET file == sort_and_write_to_osm_file(batch)
        target_ids == get_main_relations_simplified_ids(batch)
        id_geometry_map == osm_to_geojson(file, "relations", target_ids)
        written == RestoredRelations(batch, id_geometry_map)
    IN  Flush(position, "relations", batch, file, target_ids, id_geometry_map, written,
              reset(batch))

BuilderError == [kind |-> "BuilderInvocationError", pool_index |-> -1]

\* HistoryHandler.way
HistoryHandler_way ==
    /\ pc = "resolving"
    /\ history.pos < Len(src)
    /\ src[history.pos + 1].kind = "ways"
    /\ \E builder_ok \in BOOLEAN :
        LET position == history.pos + 1
            way == src[position]
            gathered == get_way_and_its_dependencies_as_dict(position, way)
            counter == [history.processing_counter EXCEPT !["ways"] = @ + 1]
            batch == AddMainWay(history.batch, position, way, gathered.way_nodes)
            seen == [history EXCEPT !.pos = position,
                                    !.processing_counter = counter,
                                    !.lookups = @ \o gathered.lookups,
                                    !.batch = batch]
            flush == way_batch_flush(position, batch)
        IN  IF is_full(batch, "ways", counter, history.entities_number)
               THEN IF builder_ok
                       THEN /\ history' = [seen EXCEPT
                                   !.out["ways"] = WriteOutAll(@, flush.written, 1),
                                   !.flushes = Append(@, flush),
                                   !.batch = flush.after]
                            /\ UNCHANGED <<pc, err>>
                       ELSE /\ history' = seen
                            /\ pc' = "fatal"
                            /\ err' = BuilderError
               ELSE /\ history' = seen
                    /\ UNCHANGED <<pc, err>>
    /\ UNCHANGED <<args, src, num_db_shards, workers, stores, addLog, dbs,
                   indexing_processing_counter, merged>>

\* Variant: the loop over the members stops at the first member of any kind.
has_member(relation) == relation.members # <<>>

has_relation(relation) ==
    \E i \in DOMAIN relation.members : relation.members[i].type = "r"

\* HistoryHandler.relation
HistoryHandler_relation ==
    /\ pc = "resolving"
    /\ history.pos < Len(src)
    /\ src[history.pos + 1].kind = "relations"
    /\ \E builder_ok \in BOOLEAN :
        LET position == history.pos + 1
            relation == src[position]
            gathered == get_relation_and_its_dependencies_as_dict(position, relation)
            counter == [history.processing_counter EXCEPT !["relations"] = @ + 1]
            batch == AddMainRelation(history.batch, position, relation,
                                     gathered.relation_nodes, gathered.relation_ways,
                                     gathered.relation_relations)
            counted == [history EXCEPT !.pos = position, !.processing_counter = counter]
            seen == [counted EXCEPT !.lookups = @ \o gathered.lookups, !.batch = batch]
            flush == relation_batch_flush(position, batch)
        IN  IF has_relation(relation)
               THEN IF is_full(batch, "relations", counter, history.entities_number)
                       THEN IF builder_ok
                               THEN /\ history' = [seen EXCEPT
                                           !.out["relations"] = WriteOutAll(@, flush.written, 1),
                                           !.flushes = Append(@, flush),
                                           !.batch = flush.after]
                                    /\ UNCHANGED <<pc, err>>
                               ELSE /\ history' = seen
                                    /\ pc' = "fatal"
                                    /\ err' = BuilderError
                       ELSE /\ history' = seen
                            /\ UNCHANGED <<pc, err>>
               ELSE /\ history' = counted
                    /\ UNCHANGED <<pc, err>>
    /\ UNCHANGED <<args, src, num_db_shards, workers, stores, addLog, dbs,
                   indexing_processing_counter, merged>>

\* apply_file has returned: the indexers and the output files are closed.
CloseAll ==
    /\ pc = "resolving"
    /\ history.pos = Len(src)
    /\ history' = [history EXCEPT !.open = {}, !.out_open = {}]
    /\ pc' = "upload"
    /\ UNCHANGED <<args, src, err, num_db_shards, workers, stores, addLog, dbs,
                   indexing_processing_counter, merged>>

\* Variant: the uploads are in a finally block and also run on a fatal error.
UploadResultsInFinally ==
    /\ pc \in {"upload", "fatal"}
    /\ history.out_open # {} \/ pc = "upload"
    /\ history.uploaded = {}
    /\ history' = [history EXCEPT !.uploaded = OSM_ENTITIES]
    /\ pc' = IF pc = "upload" THEN "done" ELSE pc
    /\ UNCHANGED <<args, src, err, num_db_shards, workers, stores, addLog, dbs,
                   indexing_processing_counter, merged>>

\* The emitted files are uploaded.
UploadResults ==
    /\ pc = "upload"
    /\ history' = [history EXCEPT !.uploaded = OSM_ENTITIES]
    /\ pc' = "done"
    /\ UNCHANGED <<args, src, err, num_db_shards, workers, stores, addLog, dbs,
                   indexing_processing_counter, merged>>

Next ==
    \/ Startup
    \/ SpawnPool
    \/ \E w \in 0..(MaxThreads - 1) : CreateShards(w)
    \/ \E w \in 0..(MaxThreads - 1) : IndexCreator_node(w)
    \/ \E w \in 0..(MaxThreads - 1) : IndexCreator_way(w)
    \/ \E w \in 0..(MaxThreads - 1) : IndexCreator_relation(w)
    \/ \E w \in 0..(MaxThreads - 1) : CloseShards(w)
    \/ \E w \in 0..(MaxThreads - 1) : WorkerFails(w)
    \/ JoinPool
    \/ CreateOutputFiles
    \/ MergeShards
    \/ OpenIndex
    \/ HistoryHandler_node
    \/ HistoryHandler_way
    \/ HistoryHandler_relation
    \/ CloseAll
    \/ UploadResults

Spec == Init /\ [][Next]_vars

\* ================================================================== claims
\* Definitions shared by the properties below.
ResolutionPcs == {"create_output_files", "merge", "open_index", "resolving", "upload", "done"}

IndexingPassDone ==
    /\ workers # <<>>
    /\ \A w \in DOMAIN workers : workers[w].pc = "done"

IndexRows == merged \cup UNION {stores[s].rows : s \in DOMAIN stores}

EmittedGeometries == Range(history.out["ways"]) \cup Range(history.out["relations"])

DependenciesOf(e) == Range(e.way_nodes) \cup e.relation_nodes \cup e.relation_ways

\* C1: every dependency used for an emitted way or relation version with
\* timestamp T is a stored row r of its (kind, id) with r.ts <= T, and the
\* indexing pass stored no row of that (kind, id) with a timestamp in (r.ts, T],
\* in every configuration of the run.
C1_DependenciesAreAsOfT ==
    \A e \in EmittedGeometries : \A d \in DependenciesOf(e) :
        /\ d \in IndexRows
        /\ d.ts <= e.ts
        /\ ~\E r \in IndexRows :
               r.kind = d.kind /\ r.id = d.id /\ d.ts < r.ts /\ r.ts <= e.ts

\* C2: every index lookup issued while resolving an entity uses that entity's
\* own version timestamp as the as-of argument.
C2_LookupsUseEntityTimestamp ==
    \A i \in DOMAIN history.lookups :
        history.lookups[i].asof = src[history.lookups[i].position].ts

\* A relation has looked up a member way of an earlier timestamp and its nodes.
C2_Witness ==
    \E i, j \in DOMAIN history.lookups :
        LET way_lookup == history.lookups[i]
            node_lookup == history.lookups[j]
            found == GetAsOf(RowsAt(way_lookup.path), "ways", way_lookup.id, way_lookup.asof)
        IN  /\ i < j
            /\ src[way_lookup.position].kind = "relations"
            /\ node_lookup.position = way_lookup.position
            /\ way_lookup.kind = "ways"
            /\ node_lookup.kind = "nodes"
            /\ \E w \in found : w.ts < way_lookup.asof

\* C3: the store the resolution pass selects for an id is the store into which
\* the indexing pass wrote every version of that id, in both partition modes,
\* merged or not.
C3_LookupSelectsIndexingStore ==
    \A i \in DOMAIN history.lookups : \A a \in addLog :
        LET l == history.lookups[i]
        IN  (src[a.position].kind = l.kind /\ src[a.position].id = l.id)
                => (l.path = MergedPath \/ l.path = a.shard)

\* C4: after the indexing pass every source record has been added to the index
\* exactly once: by one worker, to one shard.
C4_EveryRecordAddedOnce ==
    IndexingPassDone =>
        \A p \in DOMAIN src : Cardinality({a \in addLog : a.position = p}) = 1

\* Two workers of a pool have each stored a record of the stream.
C4_Witness ==
    /\ IndexingPassDone
    /\ \E a, b \in addLog : a.pool_index # b.pool_index

\* C5: after the indexing pass no key (kind, id, timestamp) is present in two
\* different shard stores.
C5_KeyInOneShard ==
    IndexingPassDone =>
        \A s, t \in DOMAIN stores :
            s # t => ~\E r \in stores[s].rows, q \in stores[t].rows : SameKey(r, q)

\* The shard slots [w*S/T, (w+1)*S/T) of worker w.
SlotRange(w) ==
    {s \in 0..(num_db_shards - 1) :
        /\ w * (num_db_shards \div args.num_threads) <= s
        /\ s < (w + 1) * (num_db_shards \div args.num_threads)}

\* C6: worker w owns exactly the slots [w*S/T, (w+1)*S/T); the ranges are
\* pairwise disjoint and cover 0..S-1, and every shard store is created and
\* written by exactly one worker, its owner.
C6_OneWriterPerShard ==
    /\ \A w \in DOMAIN workers :
          /\ workers[w].pc # "queued" => workers[w].osm_indexer_map = SlotRange(w)
          /\ \A v \in DOMAIN workers : v # w => SlotRange(v) \cap SlotRange(w) = {}
    /\ workers # <<>> =>
          UNION {SlotRange(w) : w \in DOMAIN workers} = 0..(num_db_shards - 1)
    /\ \A s \in DOMAIN stores :
          /\ Cardinality(stores[s].creators) = 1
          /\ stores[s].writers \subseteq stores[s].creators
          /\ \A w \in stores[s].creators : s \in SlotRange(w)
    /\ IndexingPassDone => DOMAIN stores = 0..(num_db_shards - 1)

\* Two workers are streaming and each has written a store of its own.
C6_Witness ==
    \E v, w \in DOMAIN workers : \E s, t \in DOMAIN stores :
        /\ v # w
        /\ workers[v].pc = "streaming" /\ workers[w].pc = "streaming"
        /\ stores[s].writers = {v} /\ stores[t].writers = {w}

Max(a, b) == IF a > b THEN a ELSE b

\* C7: a num_shards below num_workers is raised to num_workers; a num_shards
\* that is then no multiple of num_workers is fatal before any worker is
\* spawned or any store created; a run that reaches the indexing pass has
\* num_shards >= num_workers and num_shards mod num_workers = 0.
C7_ShardConfigValidated ==
    /\ pc # "start" => num_db_shards = Max(args.num_db_shards, args.num_threads)
    /\ (pc # "start" /\ num_db_shards % args.num_threads # 0) =>
          /\ pc = "fatal" /\ err.kind = "ShardConfigError"
          /\ workers = <<>> /\ stores = <<>>
    /\ (workers # <<>> \/ stores # <<>>) =>
          /\ num_db_shards >= args.num_threads
          /\ num_db_shards % args.num_threads = 0

\* The pool runs on a shard count that was raised to the number of workers.
C7_Witness ==
    /\ workers # <<>>
    /\ args.num_db_shards < args.num_threads
    /\ num_db_shards = args.num_threads

ResolutionActed ==
    \/ pc \in ResolutionPcs
    \/ history # NoHistory
    \/ merged # {}

\* C8: no lookup, merge or emission of the resolution pass happens before every
\* indexer worker has reached end-of-stream and closed the stores it owns.
C8_StrictBarrier ==
    ResolutionActed =>
        \A w \in DOMAIN workers :
            /\ workers[w].pc = "done"
            /\ workers[w].pos = Len(src)
            /\ workers[w].open = {}

\* The resolution pass has looked rows up after a pool of two workers.
C8_Witness ==
    /\ Len(history.lookups) > 0
    /\ Cardinality(DOMAIN workers) > 1

\* C9: if an indexer worker fails, the failure is propagated to the caller of
\* run_create_osm_index_in_parallel and the resolution pass is never started.
C9_WorkerFailureAborts ==
    FailedWorkers # {} =>
        /\ pc \in {"join", "fatal"}
        /\ pc = "fatal" => (err.kind = "WorkerError" /\ err.pool_index \in FailedWorkers)
        /\ ~ResolutionActed

\* The run was aborted for a failed worker while another worker had finished.
C9_Witness ==
    /\ pc = "fatal"
    /\ err.kind = "WorkerError"
    /\ \E w \in DOMAIN workers : workers[w].pc = "done" /\ stores[Min(workers[w].osm_indexer_map)].rows # {}

NodePositions(n) == {p \in 1..n : src[p].kind = "nodes"}

\* C10: every node version yields exactly one node record, written when the
\* node is visited, with geometry a Point when the location is valid and null
\* otherwise; the emission reads no index and adds nothing to the batch.
C10_NodeEmittedDirectly ==
    pc \in {"resolving", "upload", "done"} =>
        /\ {e.position : e \in Range(history.out["nodes"])} = NodePositions(history.pos)
        /\ Len(history.out["nodes"]) = Cardinality(NodePositions(history.pos))
        /\ \A e \in Range(history.out["nodes"]) :
               e.geometry = IF src[e.position].valid THEN StrValue(PointDict.text) ELSE None
        /\ \A i \in DOMAIN history.lookups :
               src[history.lookups[i].position].kind # "nodes"
        /\ \A m \in Range(history.batch.main_ways) \cup Range(history.batch.main_relations) :
               m.entity.kind # "nodes"

KindPositions(kind, n) == {p \in 1..n : src[p].kind = kind}

ResolutionPassEnded == pc \in {"upload", "done"}

TimesEmitted(kind, p) ==
    Cardinality({i \in DOMAIN history.out[kind] : history.out[kind][i].position = p})

\* C11: when the resolution pass has ended, every way version of the source
\* has been emitted exactly once, so the ways output has as many records as the
\* source has way versions, whatever the stream length is relative to
\* ways_batch_size.
C11_EveryWayEmittedOnce ==
    ResolutionPassEnded =>
        /\ \A p \in KindPositions("ways", Len(src)) : TimesEmitted("ways", p) = 1
        /\ Len(history.out["ways"]) = Cardinality(KindPositions("ways", Len(src)))

\* The versions that were added to the batch as main entities.
MainPositions(n) ==
    {p \in 1..n : \/ src[p].kind = "ways"
                  \/ src[p].kind = "relations" /\ has_relation(src[p])}

\* C12: when the resolution pass has consumed the whole stream, every way and
\* every relation that was added to the batch as a main entity has been
\* emitted: the residual partial batch is flushed, whatever the last record of
\* the stream is.
C12_ResidualBatchFlushed ==
    ResolutionPassEnded =>
        /\ \A p \in MainPositions(Len(src)) : TimesEmitted(src[p].kind, p) = 1
        /\ history.batch.main_ways = <<>>
        /\ history.batch.main_relations = <<>>

\* C13: a relation version without a member of kind relation bypasses the batch
\* and is still emitted: when the pass has ended it has one record in the
\* relations output, with geometry null.
C13_PlainRelationEmitted ==
    ResolutionPassEnded =>
        \A p \in KindPositions("relations", Len(src)) :
            ~has_relation(src[p]) =>
                /\ TimesEmitted("relations", p) = 1
                /\ \A e \in Range(history.out["relations"]) :
                       e.position = p => e.geometry = None

\* The way at position p has no node that resolves, as of its timestamp, to a
\* version with a location: the nodes are deleted, or absent from the index.
WayWithoutDependencies(p) ==
    /\ src[p].kind = "ways"
    /\ \A i \in DOMAIN src[p].nodes : ~Found("nodes", src[p].nodes[i], src[p].ts)

\* C14: a missing or deleted dependency is not fatal and does not drop the main
\* entity: a visited way none of whose nodes resolves is in the batch with an
\* empty dependency list until it is emitted, once and with geometry null, and
\* the pass goes on; the only fatal error of the pass is a builder failure.
C14_MissingDependencyKeepsWay ==
    history.osm_indexer_map # <<>> =>
        /\ \A p \in 1..history.pos :
              WayWithoutDependencies(p) =>
                  \/ /\ TimesEmitted("ways", p) = 0
                     /\ \E m \in Range(history.batch.main_ways) :
                            m.position = p /\ m.way_nodes = <<>>
                  \/ /\ TimesEmitted("ways", p) = 1
                     /\ \A e \in Range(history.out["ways"]) :
                            e.position = p => (e.way_nodes = <<>> /\ e.geometry = None)
        /\ (pc = "fatal" /\ history.pos > 0) => err = BuilderError

\* C15: an emitted file is uploaded only after the resolution pass has consumed
\* the whole stream and every output file has been closed; a run that ended in
\* a fatal error, of the indexing or of the resolution pass, has uploaded none.
C15_NoPartialUpload ==
    /\ history.uploaded # {} =>
          /\ pc = "done" /\ err = NoError
          /\ history.pos = Len(src)
          /\ history.out_open = {}
          /\ history.uploaded = OSM_ENTITIES
    /\ pc = "fatal" => history.uploaded = {}

\* The three files were uploaded after a pass that emitted nodes and ways.
C15_Witness ==
    /\ history.uploaded = OSM_ENTITIES
    /\ history.out["nodes"] # <<>>
    /\ history.out["ways"] # <<>>

\* C16: each time the count of a worker reaches a multiple of
\* batch_size_to_commit, the worker commits every shard it owns, whichever shard
\* the record belongs to; so it never processes more than batch_size_to_commit
\* records without a commit.
C16_CommitEveryBatch ==
    \A w \in DOMAIN workers :
        (workers[w].pc \in {"streaming", "done"} /\ workers[w].pos > 0) =>
            /\ commit_needed(workers[w].processing_counter[src[workers[w].pos].kind])
                  => workers[w].since_commit = 0
            /\ workers[w].since_commit <= batch_size_to_commit

MemberKinds(relation) == {relation.members[i].type : i \in DOMAIN relation.members}

\* The resolution pass handles the relation at position history'.pos.
RelationStep ==
    /\ pc = "resolving"
    /\ history'.pos = history.pos + 1
    /\ src[history'.pos].kind = "relations"

BatchedRelations ==
    {m.position : m \in Range(history.batch.main_relations)}
        \cup {e.position : e \in Range(history.out["relations"])}

\* C17: a relation version is added to the batch as a main relation if and only
\* if it has a member of kind relation; handling a relation with only node and
\* way members issues no index lookup, leaves the batch as it was and flushes
\* nothing.
C17_OnlyRelationsOfRelationsBatched ==
    /\ [](\A p \in BatchedRelations : "r" \in MemberKinds(src[p]))
    /\ [](\A i \in DOMAIN history.lookups :
             src[history.lookups[i].position].kind = "relations"
                 => "r" \in MemberKinds(src[history.lookups[i].position]))
    /\ [][RelationStep =>
             IF "r" \in MemberKinds(src[history'.pos])
                THEN \/ \E m \in Range(history'.batch.main_relations) :
                            m.position = history'.pos
                     \/ \E e \in Range(history'.out["relations"]) :
                            e.position = history'.pos
                ELSE /\ history'.batch = history.batch
                     /\ history'.lookups = history.lookups
                     /\ history'.flushes = history.flushes
                     /\ history'.out = history.out
                     /\ pc' = pc]_vars

\* A relation with only node and way members was handled while a relation of
\* relations was pending in the batch.
C17_Witness ==
    /\ pc = "resolving"
    /\ history.pos > 0
    /\ src[history.pos].kind = "relations"
    /\ "r" \notin MemberKinds(src[history.pos])
    /\ history.batch.main_relations # <<>>

\* The lookups issued while gathering the dependencies of relations.
RelationLookups ==
    {i \in DOMAIN history.lookups : src[history.lookups[i].position].kind = "relations"}

MemberKind(type) == IF type = "n" THEN "nodes" ELSE IF type = "w" THEN "ways" ELSE "relations"

\* The way version a lookup of a member way returned.
WayFetched(l) == TheRow(get_from_index_by_timestamp("ways", l.id, l.asof))

\* Lookup i fetched a member way that was found: the next lookups fetch its node
\* ids, in order, as of the same timestamp.
WayExpanded(i) ==
    LET l == history.lookups[i]
        node_ids == WayFetched(l).nodes
    IN  /\ i + Len(node_ids) <= Len(history.lookups)
        /\ \A k \in DOMAIN node_ids :
               LET n == history.lookups[i + k]
               IN  /\ n.position = l.position /\ n.via = "member_way_node"
                   /\ n.kind = "nodes" /\ n.id = node_ids[k] /\ n.asof = l.asof

\* Lookup j fetched a node of a member way fetched and found just before.
InExpansion(j) ==
    \E i \in 1..(j - 1) :
        LET l == history.lookups[i]
        IN  /\ l.position = history.lookups[j].position
            /\ l.via = "member" /\ l.kind = "ways" /\ l.found
            /\ j - i <= Len(WayFetched(l).nodes)

\* Every node or way member of a handled relation of relations has a lookup.
MembersFetched ==
    \A p \in 1..history.pos :
        (src[p].kind = "relations" /\ "r" \in MemberKinds(src[p])) =>
            \A m \in DOMAIN src[p].members :
                src[p].members[m].type \in {"n", "w"} =>
                    \E i \in RelationLookups :
                        /\ history.lookups[i].position = p
                        /\ history.lookups[i].kind = MemberKind(src[p].members[m].type)
                        /\ history.lookups[i].id = src[p].members[m].ref

\* One level of expansion, as of the relation's timestamp, no relation fetched.
OneLevelOnly ==
    /\ \A i \in RelationLookups :
          LET l == history.lookups[i]
          IN  /\ l.asof = src[l.position].ts
              /\ l.kind # "relations"
              /\ l.via \in {"member", "member_way_node"}
              /\ (l.via = "member" /\ l.kind = "ways" /\ l.found) => WayExpanded(i)
              /\ l.via = "member_way_node" => InExpansion(i)
    /\ MembersFetched
    /\ history.batch.deps_relations = {}
    /\ \A f \in Range(history.flushes) : f.batch.deps_relations = {}

\* C18 as stated: gathering expands one level, and a node member and a way
\* member are fetched once per distinct id.
C18_MemberFetchedOncePerId ==
    /\ OneLevelOnly
    /\ \A i, j \in RelationLookups :
          LET l == history.lookups[i]
              k == history.lookups[j]
          IN  (i # j /\ l.via = "member" /\ k.via = "member"
                     /\ l.position = k.position /\ l.kind = k.kind)
                  => l.id # k.id

\* The members of relation p of one kind and id.
MembersOf(p, kind, id) ==
    {m \in DOMAIN src[p].members :
        MemberKind(src[p].members[m].type) = kind /\ src[p].members[m].ref = id}

MemberFetches(p, kind, id) ==
    {i \in RelationLookups :
        LET l == history.lookups[i]
        IN  l.position = p /\ l.via = "member" /\ l.kind = kind /\ l.id = id}

\* C18 amended: gathering expands exactly one level as of the relation's
\* timestamp (a found member way has each of its node ids fetched, a member
\* relation is never fetched, the relation dependencies stay empty), and a node
\* or way member is fetched unless an earlier fetch for the same relation found
\* its id: once when the id resolves, at every repetition when it does not.
C18_MemberFetchedUnlessPresent ==
    /\ OneLevelOnly
    /\ \A j \in RelationLookups :
          LET k == history.lookups[j]
          IN  k.via = "member" =>
                  /\ \A i \in 1..(j - 1) :
                         LET l == history.lookups[i]
                         IN  (l.position = k.position /\ l.kind = k.kind /\ l.id = k.id)
                                 => ~l.found
                  /\ ~k.found =>
                         Cardinality(MemberFetches(k.position, k.kind, k.id))
                             = Cardinality(MembersOf(k.position, k.kind, k.id))

\* A relation found a member way and expanded it, fetched a node member that
\* did not resolve a second time and did not fetch the found way again.
C18_Witness ==
    \E i, j, w \in RelationLookups :
        LET l == history.lookups[i]
            k == history.lookups[j]
            way == history.lookups[w]
        IN  /\ i < j /\ l.position = k.position /\ way.position = l.position
            /\ l.via = "member" /\ k.via = "member"
            /\ l.kind = "nodes" /\ k.kind = "nodes" /\ l.id = k.id
            /\ way.via = "member" /\ way.kind = "ways" /\ way.found
            /\ Cardinality(MemberFetches(way.position, "ways", way.id)) = 1
            /\ Cardinality(MembersOf(way.position, "ways", way.id)) = 2

\* list is, in the order of node_ids[i..] and with repetitions, the located
\* versions the index holds as of ts; an id whose version as of ts is absent or
\* has no location contributes nothing.
RECURSIVE IsAsOfList(_, _, _, _)
IsAsOfList(list, node_ids, i, ts) ==
    IF i > Len(node_ids)
       THEN list = <<>>
       ELSE LET found == GetAsOf(IndexRows, "nodes", node_ids[i], ts)
            IN  \/ /\ list # <<>>
                   /\ Head(list) \in found
                   /\ is_node_dict_with_location(Head(list))
                   /\ IsAsOfList(Tail(list), node_ids, i + 1, ts)
                \/ /\ found = {} \/ \E r \in found : ~is_node_dict_with_location(r)
                   /\ IsAsOfList(list, node_ids, i + 1, ts)

GatheredWays == Range(history.batch.main_ways) \cup Range(history.out["ways"])

\* C19: the dependency list gathered for a way version is exactly, in
\* membership order and with repeated ids kept, the versions of its nodes as of
\* the way's timestamp that exist and have a location; a node whose version as
\* of that timestamp is deleted is omitted, not replaced by another version.
C19_WayNodesAreAsOfList ==
    \A m \in GatheredWays :
        IsAsOfList(m.way_nodes, src[m.position].nodes, 1, src[m.position].ts)

Mains(batch, kind) == IF kind = "ways" THEN batch.main_ways ELSE batch.main_relations

BatchDependencies(batch) == batch.deps_nodes \cup batch.deps_ways \cup batch.deps_relations

FileIds(file, kind) == {object.simplified_id : object \in file[kind]}

\* The simplified ids of a kind held by a batch are 1..n, n being the number of
\* ids given out since the batch was created empty, and each maps back to the
\* original id of its object.
IdsLocalToBatch(batch) ==
    /\ \A kind \in {"ways", "relations"} :
          \A m \in Range(Mains(batch, kind)) :
              /\ m.entity.id \in DOMAIN batch.simplified_to_original[kind]
              /\ batch.simplified_to_original[kind][m.entity.id] = src[m.position].id
    /\ \A d \in BatchDependencies(batch) :
          /\ d.simplified_id \in DOMAIN batch.simplified_to_original[d.row.kind]
          /\ batch.simplified_to_original[d.row.kind][d.simplified_id] = d.row.id
    /\ \A kind \in OSM_ENTITIES :
          Len(batch.simplified_to_original[kind])
              = Cardinality({d \in BatchDependencies(batch) : d.row.kind = kind})
                + (IF kind = "nodes" THEN 0 ELSE Len(Mains(batch, kind)))

\* Every dependency of a batch was gathered for a main entity of that batch.
DependenciesOfOwnMains(batch) ==
    \A d \in BatchDependencies(batch) :
        \E m \in Range(batch.main_ways) \cup Range(batch.main_relations) :
            d.row \in Range(m.way_nodes) \cup m.relation_nodes \cup m.relation_ways

\* The steps of one flush, each on the result of the one before.
FlushInOrder(f) ==
    LET mains == Mains(f.batch, f.kind)
    IN  /\ mains # <<>>
        /\ mains[Len(mains)].position = f.position
        \* the file holds the whole batch, under simplified ids
        /\ \A kind \in {"ways", "relations"} :
               {m.entity.id : m \in Range(Mains(f.batch, kind))} \subseteq FileIds(f.file, kind)
        /\ \A d \in BatchDependencies(f.batch) : d.simplified_id \in FileIds(f.file, d.row.kind)
        \* the builder is asked for the main entities of the file
        /\ f.target_ids = {mains[i].entity.id : i \in DOMAIN mains}
        /\ f.target_ids \subseteq FileIds(f.file, f.kind)
        /\ DOMAIN f.id_geometry_map \subseteq f.target_ids
        \* every main entity is written, under its original id, with the geometry
        \* returned for its simplified id
        /\ Len(f.written) = Len(mains)
        /\ \A i \in DOMAIN mains :
               /\ f.written[i].position = mains[i].position
               /\ f.written[i].id = src[mains[i].position].id
               /\ f.written[i].geometry =
                      IF mains[i].entity.id \in DOMAIN f.id_geometry_map
                         THEN f.id_geometry_map[mains[i].entity.id]
                         ELSE None
        \* then the batch is reset
        /\ f.after = EmptyBatch

\* C20: every flush writes the batch to the file, invokes the builder with the
\* simplified ids of the main entities, restores the original ids and emits
\* each main entity, then resets; the step that flushes leaves the batch empty
\* and writes nothing but the restored entities, no other step writes a way or
\* a relation, and the simplified ids and dependencies of a batch are those
\* given and gathered since the last reset.
C20_FlushStepsInOrder ==
    /\ [](\A f \in Range(history.flushes) :
             FlushInOrder(f) /\ IdsLocalToBatch(f.batch) /\ DependenciesOfOwnMains(f.batch))
    /\ [](IdsLocalToBatch(history.batch) /\ DependenciesOfOwnMains(history.batch))
    /\ [][IF history'.flushes # history.flushes
             THEN LET f == history'.flushes[Len(history'.flushes)]
                  IN  /\ history'.flushes = Append(history.flushes, f)
                      /\ history'.batch = EmptyBatch
                      /\ history'.out[f.kind] = history.out[f.kind] \o f.written
                      /\ \A kind \in {"ways", "relations"} \ {f.kind} :
                             history'.out[kind] = history.out[kind]
             ELSE /\ history'.out["ways"] = history.out["ways"]
                  /\ history'.out["relations"] = history.out["relations"]]_vars

\* Two batches were flushed, each with a dependency node, and the second gave
\* out simplified id 1 again.
C20_Witness ==
    /\ Len(history.flushes) = 2
    /\ history.flushes[1].batch.deps_nodes # {}
    /\ \E d \in history.flushes[2].batch.deps_nodes : d.simplified_id = 1
    /\ history.batch = EmptyBatch

Increasing(positions) ==
    \A i, j \in DOMAIN positions : i < j => positions[i] < positions[j]

OutPositions(kind) == [i \in DOMAIN history.out[kind] |-> history.out[kind][i].position]

\* C21: the emitted records follow the source stream: the node records are in
\* source order, and a way (or batched relation) record of an earlier batch
\* comes before every record of a later batch, the records of one batch being
\* in source order; a batch is written while the record that filled it is
\* handled, so nothing written is from beyond the position of the pass.
C21_EmittedInSourceOrder ==
    /\ \A kind \in OSM_ENTITIES :
          /\ Increasing(OutPositions(kind))
          /\ \A e \in Range(history.out[kind]) :
                 e.position <= history.pos /\ src[e.position].kind = kind
    /\ \A i, j \in DOMAIN history.flushes :
          LET f == history.flushes[i]
              g == history.flushes[j]
          IN  /\ \A e \in Range(f.written) : e.position <= f.position
              /\ i < j =>
                    /\ f.position < g.position
                    /\ f.kind = g.kind =>
                          \A e \in Range(f.written), d \in Range(g.written) :
                              /\ e.position < d.position
                              /\ \E a, b \in DOMAIN history.out[f.kind] :
                                     /\ a < b
                                     /\ history.out[f.kind][a] = e
                                     /\ history.out[f.kind][b] = d

\* Two batches of ways were written, the first with two ways.
C21_Witness ==
    /\ Len(history.out["ways"]) = 3
    /\ \E i, j \in DOMAIN history.flushes :
          /\ i < j
          /\ history.flushes[i].kind = "ways" /\ history.flushes[j].kind = "ways"
          /\ Len(history.flushes[i].written) = 2

\* C22: when a worker has failed, the supervisor returns the first failure it
\* observes and cancels the siblings: from the failure on no other worker reads
\* a further record of the source or runs to its end.
C22_SiblingsCancelled ==
    [][/\ FailedWorkers # {} =>
             \A w \in DOMAIN workers :
                 workers[w].pc = "streaming" =>
                     /\ workers'[w].pos <= workers[w].pos
                     /\ workers'[w].pc # "done"
       /\ (pc' = "fatal" /\ err'.kind = "WorkerError") =>
             err'.pool_index = Min({w \in DOMAIN workers' : workers'[w].pc = "failed"})]_vars

\* C23: when the resolution pass ends in a fatal error, every index store that
\* was opened for the pass has been closed before the error reaches the caller.
C23_StoresClosedOnFatalError ==
    (pc = "fatal" /\ history.osm_indexer_map # <<>>) => history.open = {}

OtherKind(kind) == IF kind = "ways" THEN "relations" ELSE "ways"

\* C24: the reset that ends a flush never discards a main entity that has not
\* been emitted: at every flush, whatever the order of ways and relations in
\* the stream, the batch holds no main entity of the kind the flush does not
\* restore.
C24_ResetDiscardsNoPendingMain ==
    \A i \in DOMAIN history.flushes :
        Mains(history.flushes[i].batch, OtherKind(history.flushes[i].kind)) = <<>>

SourceCount(kind, n) == Cardinality(KindPositions(kind, n))

SourceTotals == [kind \in OSM_ENTITIES |-> SourceCount(kind, Len(src))]

\* C25: an indexer task counts every record it reads, owned or not: its per-kind
\* counter is the number of records of the kind read so far, so every task
\* computes the same counter value (and, in counter mode, the same shard) for a
\* record, every task ends with the numbers of source versions of each kind, the
\* counts the supervisor keeps are these totals, and the counter of the
\* resolution pass reaches them at the last record of each kind.
C25_CountersIndependentOfOwnership ==
    /\ \A w \in DOMAIN workers :
           workers[w].pc \in {"streaming", "done"} =>
               /\ \A kind \in OSM_ENTITIES :
                      workers[w].processing_counter[kind] = SourceCount(kind, workers[w].pos)
               /\ workers[w].pc = "done" => workers[w].processing_counter = SourceTotals
    /\ ~args.use_id_hash_partitioned_shards =>
           \A a \in addLog :
               a.shard = SourceCount(src[a.position].kind, a.position) % num_db_shards
    /\ pc \in ResolutionPcs => indexing_processing_counter = SourceTotals
    /\ pc \in {"resolving", "upload", "done"} =>
           /\ history.entities_number = SourceTotals
           /\ \A kind \in OSM_ENTITIES :
                  history.processing_counter[kind] = SourceCount(kind, history.pos)
    /\ ResolutionPassEnded => history.processing_counter = indexing_processing_counter

\* A pool of two tasks has ended, a task counted a record stored by the other,
\* and the resolution pass has read the whole stream.
C25_Witness ==
    /\ Cardinality(DOMAIN workers) = 2
    /\ IndexingPassDone
    /\ \E a \in addLog : a.pool_index = 1
    /\ \E a \in addLog : a.pool_index = 0
    /\ Len(src) >= 2
    /\ ResolutionPassEnded

====
